---- MODULE Spec2Model ----
(***************************************************************************)
(* Model of server.js: an Express application with a global logging        *)
(* middleware, a Bearer-token authentication middleware (bearerAuth),      *)
(* three GET routes, a catch-all 404 middleware and an error middleware.   *)
(*                                                                         *)
(* Strings the code operates on (header values, URLs, the token) are       *)
(* sequences of one-character strings, so that split(' ') and the path     *)
(* matching are computed, not assumed.  Response bodies and messages are   *)
(* only ever compared, and are plain strings.                              *)
(*                                                                         *)
(* Each middleware / handler is one action.  next() is the router's        *)
(* search for the next matching layer (NextPos).                           *)
(***************************************************************************)
EXTENDS Integers, Sequences, FiniteSets, TLC

VARIABLES
    PORT,      \* server.js:8
    TOKEN,     \* server.js:9
    req,       \* per request: method, originalUrl, headers['authorization']
    at,        \* per request: where the router is in the middleware stack
    res,       \* per request: the responses written (status, body), in order
    console,   \* lines written by console.log, in order
    now,       \* the instant new Date() reads
    trace      \* per request: the handlers that have run, in order (history)

vars == <<PORT, TOKEN, req, at, res, console, now, trace>>

----------------------------------------------------------------------------
(* Bounds *)

\* header values are concatenations of at most MaxParts pieces of HeaderParts
MaxParts == 4
\* requests handled at the same time in SpecConc / FairSpec
NumReqs == 2
\* the clock runs from instant 0 to instant MaxTime
MaxTime == 1

Reqs == 1..NumReqs

----------------------------------------------------------------------------
(* Strings as character sequences *)

SP == " "
sBearer == <<"B", "e", "a", "r", "e", "r">>
sBearerLower == <<"b", "e", "a", "r", "e", "r">>
sBasic == <<"B", "a", "s", "i", "c">>
\* a token other than the default one
sOtherToken == <<"w", "r", "o", "n", "g", "t", "o", "k", "e", "n">>
sPortText == <<"8", "0", "8", "0">>

\* a JavaScript value that may be undefined
Undefined == [def |-> FALSE, v |-> <<>>]
Some(s) == [def |-> TRUE, v |-> s]
\* !x for x undefined or a string
Falsy(x) == ~x.def \/ x.v = <<>>

\* String.prototype.split(' '): cut at every space
RECURSIVE split(_)
split(s) ==
    IF \A k \in 1..Len(s) : s[k] # SP
    THEN <<s>>
    ELSE LET k == CHOOSE n \in 1..Len(s) :
                     s[n] = SP /\ \A m \in 1..(n - 1) : s[m] # SP
         IN  <<SubSeq(s, 1, k - 1)>> \o split(SubSeq(s, k + 1, Len(s)))

\* array element, undefined past the end (destructuring, indexing)
Elem(a, n) == IF n <= Len(a) THEN Some(a[n]) ELSE Undefined

----------------------------------------------------------------------------
(* Configuration: server.js:8-9 *)

DefaultPort == 3000
DefaultToken == <<"m", "y", "s", "e", "c", "r", "e", "t", "t", "o", "k", "e", "n">>

\* process.env.PORT || 3000 ; an environment value stays a string
PortOf(env) == IF Falsy(env) THEN [num |-> DefaultPort, text |-> <<>>]
               ELSE [num |-> 0, text |-> env.v]
\* process.env.TOKEN || 'mysecrettoken'
TokenOf(env) == IF Falsy(env) THEN DefaultToken ELSE env.v

\* a configured token that contains a space
sSpacedToken == sOtherToken \o <<SP>> \o DefaultToken

\* the environments the server is started in: PORT and TOKEN unset, set to
\* the empty string, or set
Envs == {
    [PORT |-> Undefined,       TOKEN |-> Undefined],
    [PORT |-> Some(sPortText), TOKEN |-> Some(<<>>)],
    [PORT |-> Undefined,       TOKEN |-> Some(sOtherToken)],
    [PORT |-> Some(sPortText), TOKEN |-> Some(sSpacedToken)] }

----------------------------------------------------------------------------
(* Requests *)

uRoot == <<"/">>
uPublic == <<"/", "p", "u", "b", "l", "i", "c">>
uProtected == <<"/", "p", "r", "o", "t", "e", "c", "t", "e", "d">>
uNope == <<"/", "n", "o", "p", "e">>
uPublicAlt == <<"/", "P", "u", "b", "l", "i", "c", "/">>
uProtectedQuery == uProtected \o <<"?", "x">>

Methods == {"GET", "HEAD", "POST"}
Urls == {uRoot, uPublic, uProtected, uNope, uPublicAlt, uProtectedQuery}

HeaderParts == {sBearer, <<SP>>, DefaultToken, sOtherToken}

\* every concatenation of at most n header parts
RECURSIVE Concats(_)
Concats(n) ==
    IF n = 0 THEN {<<>>}
    ELSE LET shorter == Concats(n - 1)
         IN  shorter \cup {h \o p : h \in shorter, p \in HeaderParts}

\* further header values of interest: a valid header followed by more text,
\* and the schemes "bearer" and "Basic"
ExtraHeaders == {
    sBearer \o <<SP>> \o DefaultToken \o <<SP>> \o sOtherToken,
    sBearer \o <<SP>> \o sOtherToken \o <<SP>> \o DefaultToken,
    sBearerLower,
    sBearerLower \o <<SP>> \o DefaultToken,
    sBearerLower \o <<SP>> \o sOtherToken,
    sBasic \o <<SP>> \o DefaultToken,
    sBasic \o <<SP>> \o sOtherToken }

\* a header value reaches the handlers without leading or trailing
\* whitespace (the HTTP parser strips it); it may be empty
Trimmed(h) == h = <<>> \/ (h[1] # SP /\ h[Len(h)] # SP)

Headers == {h \in Concats(MaxParts) \cup ExtraHeaders : Trimmed(h)}

\* a request as the handlers see it: req.method, req.originalUrl and
\* req.headers['authorization'] (undefined when the header was not sent)
Requests == [method : Methods, originalUrl : Urls,
             authorization : {Undefined} \cup {Some(h) : h \in Headers}]

\* the requests of the concurrent specifications
ConcRequests ==
    [method : {"GET"}, originalUrl : {uPublic, uProtected},
     authorization : {Undefined, Some(sBearer \o <<SP>> \o DefaultToken),
                      Some(sBearer \o <<SP>> \o sOtherToken)}]
    \cup {[method |-> "GET", originalUrl |-> uRoot, authorization |-> Undefined],
          [method |-> "POST", originalUrl |-> uProtected,
           authorization |-> Some(sBearer \o <<SP>> \o DefaultToken)]}

NoRequest == [method |-> "", originalUrl |-> <<>>, authorization |-> Undefined]

----------------------------------------------------------------------------
(* Express routing, as server.js sets it up (default router options:       *)
(* case-insensitive, non-strict, a GET route also serves HEAD)             *)

\* the path of a URL: the text before the first '?'
Pathname(url) ==
    IF \A k \in 1..Len(url) : url[k] # "?"
    THEN url
    ELSE SubSeq(url, 1, (CHOOSE n \in 1..Len(url) :
                    url[n] = "?" /\ \A m \in 1..(n - 1) : url[m] # "?") - 1)

LowerChar(c) == CASE c = "P" -> "p" [] c = "B" -> "b" [] OTHER -> c
Lower(s) == [k \in 1..Len(s) |-> LowerChar(s[k])]

\* a route path matches the pathname, ignoring case and one trailing slash
PathMatches(route, pathname) ==
    LET p == Lower(pathname)
    IN  IF route[Len(route)] = "/"
        THEN p = route \/ p = SubSeq(route, 1, Len(route) - 1)
        ELSE p = route \/ p = route \o <<"/">>

\* mutant of HandlesMethod: the routes registered for every method (app.all)
HandlesMethodAll(routeMethod, method) == TRUE

\* Route._handles_method: HEAD falls back to the GET handlers
HandlesMethod(routeMethod, method) ==
    routeMethod = (IF method = "HEAD" THEN "GET" ELSE method)

\* mutant of Stack: bearerAuth also guards the public route
StackAuthOnPublic == <<
    [kind |-> "use",   method |-> "",    path |-> uRoot,      isErr |-> FALSE,
     handlers |-> <<"logger">>],
    [kind |-> "route", method |-> "GET", path |-> uPublic,    isErr |-> FALSE,
     handlers |-> <<"bearerAuth", "public">>],
    [kind |-> "route", method |-> "GET", path |-> uProtected, isErr |-> FALSE,
     handlers |-> <<"bearerAuth", "protected">>],
    [kind |-> "route", method |-> "GET", path |-> uRoot,      isErr |-> FALSE,
     handlers |-> <<"root">>],
    [kind |-> "use",   method |-> "",    path |-> uRoot,      isErr |-> FALSE,
     handlers |-> <<"notFound">>],
    [kind |-> "use",   method |-> "",    path |-> uRoot,      isErr |-> TRUE,
     handlers |-> <<"errorHandler">>] >>

\* mutant of Stack: the logging middleware registered after the public route
StackLoggerLate == <<
    [kind |-> "route", method |-> "GET", path |-> uPublic,    isErr |-> FALSE,
     handlers |-> <<"public">>],
    [kind |-> "use",   method |-> "",    path |-> uRoot,      isErr |-> FALSE,
     handlers |-> <<"logger">>],
    [kind |-> "route", method |-> "GET", path |-> uProtected, isErr |-> FALSE,
     handlers |-> <<"bearerAuth", "protected">>],
    [kind |-> "route", method |-> "GET", path |-> uRoot,      isErr |-> FALSE,
     handlers |-> <<"root">>],
    [kind |-> "use",   method |-> "",    path |-> uRoot,      isErr |-> FALSE,
     handlers |-> <<"notFound">>],
    [kind |-> "use",   method |-> "",    path |-> uRoot,      isErr |-> TRUE,
     handlers |-> <<"errorHandler">>] >>

\* the middleware stack in the order server.js registers it
Stack == <<
    [kind |-> "use",   method |-> "",    path |-> uRoot,      isErr |-> FALSE,
     handlers |-> <<"logger">>],
    [kind |-> "route", method |-> "GET", path |-> uPublic,    isErr |-> FALSE,
     handlers |-> <<"public">>],
    [kind |-> "route", method |-> "GET", path |-> uProtected, isErr |-> FALSE,
     handlers |-> <<"bearerAuth", "protected">>],
    [kind |-> "route", method |-> "GET", path |-> uRoot,      isErr |-> FALSE,
     handlers |-> <<"root">>],
    [kind |-> "use",   method |-> "",    path |-> uRoot,      isErr |-> FALSE,
     handlers |-> <<"notFound">>],
    [kind |-> "use",   method |-> "",    path |-> uRoot,      isErr |-> TRUE,
     handlers |-> <<"errorHandler">>] >>

\* does layer k take request r on a next() without an error?
LayerMatches(k, r) ==
    /\ ~Stack[k].isErr
    /\ \/ Stack[k].kind = "use"
       \/ /\ Stack[k].kind = "route"
          /\ PathMatches(Stack[k].path, Pathname(r.originalUrl))
          /\ HandlesMethod(Stack[k].method, r.method)

Idle == [st |-> "idle", layer |-> 0, h |-> 0]
Done == [st |-> "done", layer |-> 0, h |-> 0]
\* the stack is exhausted: Express's own final handler answers
Final == [st |-> "final", layer |-> 0, h |-> 0]
Running(k, h) == [st |-> "run", layer |-> k, h |-> h]

\* the first matching layer after layer k
FirstLayerAfter(k, r) ==
    LET ms == {n \in (k + 1)..Len(Stack) : LayerMatches(n, r)}
    IN  IF ms = {} THEN Final
        ELSE Running(CHOOSE n \in ms : \A m \in ms : n <= m, 1)

\* next(): the next handler of the same route, else the next matching layer
NextPos(pos, r) ==
    IF pos.h < Len(Stack[pos.layer].handlers)
    THEN Running(pos.layer, pos.h + 1)
    ELSE FirstLayerAfter(pos.layer, r)

\* the handler a request is about to run
Handler(i) ==
    IF at[i].st = "run" THEN Stack[at[i].layer].handlers[at[i].h] ELSE at[i].st

----------------------------------------------------------------------------
(* Handlers *)

\* Date.prototype.toISOString of the instant t
toISOString(t) == [iso |-> t]

NoBody == [empty |-> TRUE]

\* res.status(status).json(body): one more response written for request i
\* (res.json alone leaves the status at its default, 200)
Json(i, status, body) ==
    res' = [res EXCEPT ![i] = Append(@, [status |-> status, body |-> body])]

Ran(i, name) == trace' = [trace EXCEPT ![i] = Append(@, name)]

\* a request reaches the application and enters the stack (server.js:7, 64)
\* with any request r of the set rs
Arrive(i, rs) ==
    /\ at[i] = Idle
    /\ \E r \in rs :
          /\ req' = [req EXCEPT ![i] = r]
          /\ at' = [at EXCEPT ![i] = FirstLayerAfter(0, r)]
    /\ UNCHANGED <<PORT, TOKEN, res, console, now, trace>>

\* server.js:12-16
Logger(i) ==
    /\ Handler(i) = "logger"
    /\ console' = Append(console,
          [timestamp |-> toISOString(now), method |-> req[i].method,
           url |-> req[i].originalUrl])
    /\ Ran(i, "logger")
    /\ at' = [at EXCEPT ![i] = NextPos(at[i], req[i])]
    /\ UNCHANGED <<PORT, TOKEN, req, res, now>>

\* mutant of AuthOutcome: the scheme compared without regard to case
AuthOutcomeAnyCase(authHeader, secret) ==
    IF Falsy(authHeader)
    THEN [next |-> FALSE, status |-> 401,
          body |-> [error |-> "Missing Authorization header"]]
    ELSE LET parts == split(authHeader.v)
             scheme == Elem(parts, 1)
             token == Elem(parts, 2)
         IN  IF Lower(scheme.v) # Lower(sBearer) \/ Falsy(token)
             THEN [next |-> FALSE, status |-> 401,
                   body |-> [error |->
                     "Invalid Authorization header format. Expected: Bearer <token>"]]
             ELSE IF token.v # secret
             THEN [next |-> FALSE, status |-> 403,
                   body |-> [error |-> "Invalid token"]]
             ELSE [next |-> TRUE, status |-> 0, body |-> NoBody]

\* mutant of AuthOutcome: the token compared before the header is looked for
\* (authHeader?.split(' ')[1] !== TOKEN first)
AuthOutcomeTokenFirst(authHeader, secret) ==
    LET parts == IF authHeader.def THEN split(authHeader.v) ELSE <<>>
        scheme == Elem(parts, 1)
        token == Elem(parts, 2)
    IN  IF token # Some(secret)
        THEN [next |-> FALSE, status |-> 403,
              body |-> [error |-> "Invalid token"]]
        ELSE IF Falsy(authHeader)
        THEN [next |-> FALSE, status |-> 401,
              body |-> [error |-> "Missing Authorization header"]]
        ELSE IF scheme.v # sBearer
        THEN [next |-> FALSE, status |-> 401,
              body |-> [error |->
                "Invalid Authorization header format. Expected: Bearer <token>"]]
        ELSE [next |-> TRUE, status |-> 0, body |-> NoBody]

\* the decision of bearerAuth (server.js:20-36) on a header value, given the
\* configured token: either next() or the response it writes
AuthOutcome(authHeader, secret) ==
    IF Falsy(authHeader)
    THEN [next |-> FALSE, status |-> 401,
          body |-> [error |-> "Missing Authorization header"]]
    ELSE LET parts == split(authHeader.v)
             scheme == Elem(parts, 1)
             token == Elem(parts, 2)
         IN  IF scheme.v # sBearer \/ Falsy(token)
             THEN [next |-> FALSE, status |-> 401,
                   body |-> [error |->
                     "Invalid Authorization header format. Expected: Bearer <token>"]]
             ELSE IF token.v # secret
             THEN [next |-> FALSE, status |-> 403,
                   body |-> [error |-> "Invalid token"]]
             ELSE [next |-> TRUE, status |-> 0, body |-> NoBody]

\* mutant of BearerAuth: the denial responses lack their return, so next()
\* runs after them as well
BearerAuthNoReturn(i) ==
    /\ Handler(i) = "bearerAuth"
    /\ Ran(i, "bearerAuth")
    /\ LET out == AuthOutcome(req[i].authorization, TOKEN)
       IN  IF out.next THEN UNCHANGED res ELSE Json(i, out.status, out.body)
    /\ at' = [at EXCEPT ![i] = NextPos(at[i], req[i])]
    /\ UNCHANGED <<PORT, TOKEN, req, console, now>>

\* mutant of BearerAuth: the comparison token !== TOKEN written as the
\* assignment TOKEN = token
BearerAuthAssigns(i) ==
    /\ Handler(i) = "bearerAuth"
    /\ Ran(i, "bearerAuth")
    /\ LET out == AuthOutcome(req[i].authorization, TOKEN)
       IN  IF out.status = 401
           THEN /\ Json(i, out.status, out.body)
                /\ at' = [at EXCEPT ![i] = Done]
                /\ UNCHANGED TOKEN
           ELSE /\ TOKEN' = split(req[i].authorization.v)[2]
                /\ at' = [at EXCEPT ![i] = NextPos(at[i], req[i])]
                /\ UNCHANGED res
    /\ UNCHANGED <<PORT, req, console, now>>

\* server.js:19-37
BearerAuth(i) ==
    /\ Handler(i) = "bearerAuth"
    /\ Ran(i, "bearerAuth")
    /\ LET out == AuthOutcome(req[i].authorization, TOKEN)
       IN  IF out.next
           THEN /\ at' = [at EXCEPT ![i] = NextPos(at[i], req[i])]
                /\ UNCHANGED res
           ELSE /\ Json(i, out.status, out.body)
                /\ at' = [at EXCEPT ![i] = Done]
    /\ UNCHANGED <<PORT, TOKEN, req, console, now>>

\* mutant of Public: the handler returns without sending a response
PublicNoResponse(i) ==
    /\ Handler(i) = "public"
    /\ Ran(i, "public")
    /\ at' = [at EXCEPT ![i] = [st |-> "hung", layer |-> 0, h |-> 0]]
    /\ UNCHANGED <<PORT, TOKEN, req, res, console, now>>

\* server.js:40-42
Public(i) ==
    /\ Handler(i) = "public"
    /\ Ran(i, "public")
    /\ Json(i, 200, [message |-> "This is a public route"])
    /\ at' = [at EXCEPT ![i] = Done]
    /\ UNCHANGED <<PORT, TOKEN, req, console, now>>

\* server.js:44-46
Protected(i) ==
    /\ Handler(i) = "protected"
    /\ Ran(i, "protected")
    /\ Json(i, 200, [message |-> "Access granted to protected route",
                     timestamp |-> toISOString(now)])
    /\ at' = [at EXCEPT ![i] = Done]
    /\ UNCHANGED <<PORT, TOKEN, req, console, now>>

\* server.js:49-51
Root(i) ==
    /\ Handler(i) = "root"
    /\ Ran(i, "root")
    /\ Json(i, 200, [message |-> "Server is running. Visit /public or /protected"])
    /\ at' = [at EXCEPT ![i] = Done]
    /\ UNCHANGED <<PORT, TOKEN, req, console, now>>

\* server.js:54-56
NotFound(i) ==
    /\ Handler(i) = "notFound"
    /\ Ran(i, "notFound")
    /\ Json(i, 404, [error |-> "Not Found"])
    /\ at' = [at EXCEPT ![i] = Done]
    /\ UNCHANGED <<PORT, TOKEN, req, console, now>>

\* The error middleware (server.js:59-62) is in Stack; it is entered only by
\* next(err) or a throw, and no handler above does either.

\* time passes
Tick ==
    /\ now < MaxTime
    /\ now' = now + 1
    /\ UNCHANGED <<PORT, TOKEN, req, at, res, console, trace>>

Handle(i) ==
    \/ Logger(i)
    \/ BearerAuth(i)
    \/ Public(i)
    \/ Protected(i)
    \/ Root(i)
    \/ NotFound(i)

----------------------------------------------------------------------------
(* Specifications *)

\* after startup: the configuration is read, no request has arrived
Init ==
    /\ \E env \in Envs :
          /\ PORT = PortOf(env.PORT)
          /\ TOKEN = TokenOf(env.TOKEN)
    /\ req = [i \in Reqs |-> NoRequest]
    /\ at = [i \in Reqs |-> Idle]
    /\ res = [i \in Reqs |-> <<>>]
    /\ console = <<>>
    /\ now = 0
    /\ trace = [i \in Reqs |-> <<>>]

\* one request, drawn from every method, URL and header value, while time
\* passes
Next ==
    \/ Arrive(1, Requests)
    \/ Handle(1)
    \/ Tick

Spec == Init /\ [][Next]_vars

\* NumReqs requests in flight within one instant; their handlers interleave
\* in any order.  (Node runs one request's synchronous chain to completion,
\* which is the interleaving where a request's steps are consecutive.)
NextConc ==
    \E i \in Reqs :
        \/ Arrive(i, ConcRequests)
        \/ Handle(i)

SpecConc == Init /\ [][NextConc]_vars

\* the requests of the fair specification: one per outcome of the pipeline
FairRequests ==
    [method : {"GET"}, originalUrl : {uRoot, uPublic, uProtected, uNope},
     authorization : {Some(sBearer \o <<SP>> \o DefaultToken)}]

NextFair ==
    \E i \in Reqs :
        \/ Arrive(i, FairRequests)
        \/ Handle(i)

\* the server keeps running: while some handler is ready to run, one does
\* (the chain of a request is synchronous, each next() calls the following
\* handler directly)
FairSpec == Init /\ [][NextFair]_vars /\ WF_vars(\E i \in Reqs : Handle(i))

----------------------------------------------------------------------------
(* Vocabulary of the properties.  The header is read as the specification  *)
(* reads it: the scheme is the text before the first space, the credential *)
(* all of the text after it.                                               *)

FirstSpace(h) ==
    IF \A k \in 1..Len(h) : h[k] # SP THEN 0
    ELSE CHOOSE n \in 1..Len(h) : h[n] = SP /\ \A m \in 1..(n - 1) : h[m] # SP

SchemePart(h) == IF FirstSpace(h) = 0 THEN h ELSE SubSeq(h, 1, FirstSpace(h) - 1)
\* the credential part; the empty string when it is empty or absent
CredentialPart(h) ==
    IF FirstSpace(h) = 0 THEN <<>> ELSE SubSeq(h, FirstSpace(h) + 1, Len(h))

Responded(i) == at[i] = Done
IsGetProtected(r) == r.method = "GET" /\ Pathname(r.originalUrl) = uProtected
\* the path is one of the three routes' paths, as the router compares paths
OnRoutePath(r) ==
    LET p == Lower(Pathname(r.originalUrl))
    IN  \E u \in {uRoot, uPublic, uProtected} : p = u \/ p = u \o <<"/">>

Response(status, body) == [status |-> status, body |-> body]
MissingHeader == Response(401, [error |-> "Missing Authorization header"])
BadFormat ==
    Response(401, [error |->
        "Invalid Authorization header format. Expected: Bearer <token>"])
InvalidToken == Response(403, [error |-> "Invalid token"])
PublicOk == Response(200, [message |-> "This is a public route"])
NotFound404 == Response(404, [error |-> "Not Found"])

Has(seq, x) == \E k \in 1..Len(seq) : seq[k] = x
\* the error or message text of a response body
MessageOf(body) ==
    IF "error" \in DOMAIN body THEN body.error
    ELSE IF "message" \in DOMAIN body THEN body.message
    ELSE ""

----------------------------------------------------------------------------
(* C1 *)

\* C1: a GET /protected request whose header has scheme "Bearer" and a
\* non-empty credential (all text after the first space) different from the
\* configured token is answered 403 {"error": "Invalid token"}.
\* Violated: bearerAuth cuts the header at every space and compares only the
\* second piece.
C1_WrongCredentialIs403 ==
    \A i \in Reqs :
        LET a == req[i].authorization
        IN  ( /\ Responded(i)
              /\ IsGetProtected(req[i])
              /\ a.def
              /\ SchemePart(a.v) = sBearer
              /\ CredentialPart(a.v) # <<>>
              /\ CredentialPart(a.v) # TOKEN )
            => res[i] = <<InvalidToken>>

----------------------------------------------------------------------------
(* C2 *)

\* C2: a GET /protected request whose header is exactly "Bearer " followed
\* by the configured token is forwarded by the authenticator and answered
\* 200 with the message "Access granted to protected route" and a timestamp.
\* Violated when the configured token contains a space (see C1).
C2_ExactTokenAccepted ==
    \A i \in Reqs :
        ( /\ Responded(i)
          /\ IsGetProtected(req[i])
          /\ req[i].authorization = Some(sBearer \o <<SP>> \o TOKEN) )
        => /\ trace[i] = <<"logger", "bearerAuth", "protected">>
           /\ Len(res[i]) = 1
           /\ res[i][1].status = 200
           /\ DOMAIN res[i][1].body = {"message", "timestamp"}
           /\ res[i][1].body.message = "Access granted to protected route"

----------------------------------------------------------------------------
(* C3 *)

\* C3 as stated: a GET /protected request with a header that is present and
\* whose scheme is not "Bearer" or whose credential is empty or absent is
\* answered 401 with the format message, for every present header value.
\* Violated by the header sent with an empty value, which is answered with
\* "Missing Authorization header".
C3_Original ==
    \A i \in Reqs :
        LET a == req[i].authorization
        IN  ( /\ Responded(i)
              /\ IsGetProtected(req[i])
              /\ a.def
              /\ (SchemePart(a.v) # sBearer \/ CredentialPart(a.v) = <<>>) )
            => res[i] = <<BadFormat>>

\* C3 amended: the same for every present, non-empty header value.
C3_BadFormatIs401 ==
    \A i \in Reqs :
        LET a == req[i].authorization
        IN  ( /\ Responded(i)
              /\ IsGetProtected(req[i])
              /\ a.def
              /\ a.v # <<>>
              /\ (SchemePart(a.v) # sBearer \/ CredentialPart(a.v) = <<>>) )
            => res[i] = <<BadFormat>>

\* the configured token under the scheme "bearer" has been refused
C3_Witness ==
    \E i \in Reqs :
        /\ Responded(i)
        /\ IsGetProtected(req[i])
        /\ req[i].authorization = Some(sBearerLower \o <<SP>> \o TOKEN)
        /\ res[i] = <<BadFormat>>

----------------------------------------------------------------------------
(* C4 *)

\* C4: a GET /protected request without an Authorization header is answered
\* 401 {"error": "Missing Authorization header"} by the authenticator,
\* whatever the configured token: the check comes before the other two.
C4_MissingHeaderIs401 ==
    \A i \in Reqs :
        ( /\ Responded(i)
          /\ IsGetProtected(req[i])
          /\ ~req[i].authorization.def )
        => /\ res[i] = <<MissingHeader>>
           /\ trace[i] = <<"logger", "bearerAuth">>

C4_Witness ==
    \E i \in Reqs :
        /\ Responded(i)
        /\ IsGetProtected(req[i])
        /\ ~req[i].authorization.def
        /\ res[i] = <<MissingHeader>>

----------------------------------------------------------------------------
(* C5 *)

\* C5: the protected handler runs only after the authenticator has run for
\* the same request and forwarded it; a request the authenticator answered
\* with 401 or 403 reaches no later handler.
C5_ProtectedOnlyAfterAuth ==
    \A i \in Reqs :
        /\ \A l \in 1..Len(trace[i]) :
              trace[i][l] = "protected" =>
                  /\ l > 1
                  /\ trace[i][l - 1] = "bearerAuth"
                  /\ \A k \in 1..Len(res[i]) : res[i][k].status = 200
        /\ (\E k \in 1..Len(res[i]) : res[i][k].status \in {401, 403}) =>
              /\ trace[i][Len(trace[i])] = "bearerAuth"
              /\ ~Has(trace[i], "protected")
              /\ ~Has(trace[i], "notFound")
              /\ ~Has(trace[i], "errorHandler")
              /\ at[i] = Done

\* the authenticator has refused a request with 403
C5_Witness ==
    \E i \in Reqs :
        /\ Responded(i)
        /\ res[i] = <<InvalidToken>>
        /\ trace[i] = <<"logger", "bearerAuth">>

----------------------------------------------------------------------------
(* C6 *)

\* C6 as stated: every request to /public is answered 200 with
\* {"message": "This is a public route"} and never passes through the
\* authenticator.  Violated by a request with another method (POST /public
\* is answered 404).
C6_Original ==
    \A i \in Reqs :
        (Responded(i) /\ Pathname(req[i].originalUrl) = uPublic)
        => res[i] = <<PublicOk>> /\ ~Has(trace[i], "bearerAuth")

\* C6 amended: every GET request to /public, whatever its headers.
C6_PublicAlwaysOk ==
    \A i \in Reqs :
        ( /\ Responded(i)
          /\ req[i].method = "GET"
          /\ Pathname(req[i].originalUrl) = uPublic )
        => res[i] = <<PublicOk>> /\ ~Has(trace[i], "bearerAuth")

\* GET /public with a malformed Authorization header has been answered 200
C6_Witness ==
    \E i \in Reqs :
        /\ Responded(i)
        /\ req[i].method = "GET"
        /\ req[i].originalUrl = uPublic
        /\ req[i].authorization = Some(sBearerLower)
        /\ res[i] = <<PublicOk>>

----------------------------------------------------------------------------
(* C7 *)

\* C7 as stated: every request that is not a GET on one of the three route
\* paths is answered 404 {"error": "Not Found"} without the authenticator
\* being run, a non-GET method on a defined path included.  Violated by HEAD,
\* which the GET routes serve.
C7_Original ==
    \A i \in Reqs :
        (Responded(i) /\ ~(req[i].method = "GET" /\ OnRoutePath(req[i])))
        => res[i] = <<NotFound404>> /\ ~Has(trace[i], "bearerAuth")

\* C7 amended: every request whose method is neither GET nor HEAD, and every
\* GET request whose path matches none of the three routes.
C7_UnmatchedIs404 ==
    \A i \in Reqs :
        ( /\ Responded(i)
          /\ \/ req[i].method \notin {"GET", "HEAD"}
             \/ req[i].method = "GET" /\ ~OnRoutePath(req[i]) )
        => res[i] = <<NotFound404>> /\ ~Has(trace[i], "bearerAuth")

\* POST /protected with the right token has been answered 404
C7_Witness ==
    \E i \in Reqs :
        /\ Responded(i)
        /\ req[i].method = "POST"
        /\ req[i].originalUrl = uProtected
        /\ req[i].authorization = Some(sBearer \o <<SP>> \o TOKEN)
        /\ res[i] = <<NotFound404>>

----------------------------------------------------------------------------
(* C8 *)

\* the console lines for method m and URL u
LinesFor(m, u) ==
    {k \in 1..Len(console) : console[k].method = m /\ console[k].url = u}
\* the requests with method m and URL u that the logger has handled
LoggedReqs(m, u) ==
    {j \in Reqs : /\ req[j].method = m
                  /\ req[j].originalUrl = u
                  /\ Has(trace[j], "logger")}

\* C8: for every request, whatever its method, URL, headers and final
\* status, the logger runs first and exactly once, writes exactly one console
\* line carrying the request's method and original URL, writes no response,
\* and every other handler runs after it; no handler alters the request.
C8_LoggedOnceFirst ==
    /\ [][\A i \in Reqs : at[i] # Idle => req'[i] = req[i]]_vars
    /\ [](Len(console) = Cardinality({j \in Reqs : Has(trace[j], "logger")}))
    /\ [](\A i \in Reqs :
          /\ at[i] # Idle =>
                Cardinality(LinesFor(req[i].method, req[i].originalUrl))
                    = Cardinality(LoggedReqs(req[i].method, req[i].originalUrl))
          /\ trace[i] # <<>> =>
                /\ trace[i][1] = "logger"
                /\ \A k \in 2..Len(trace[i]) : trace[i][k] # "logger"
          /\ trace[i] = <<"logger">> => res[i] = <<>>
          /\ (at[i] # Idle /\ Handler(i) # "logger") => Has(trace[i], "logger")
          /\ res[i] # <<>> =>
                /\ Len(trace[i]) >= 2
                /\ res[i][1].status \in {200, 401, 403, 404})

\* a request with a query string, refused with 403, has its line on the
\* console
C8_Witness ==
    \E i \in Reqs :
        /\ Responded(i)
        /\ req[i].originalUrl = uProtectedQuery
        /\ res[i] = <<InvalidToken>>
        /\ \E k \in 1..Len(console) :
              console[k].method = "GET" /\ console[k].url = uProtectedQuery

----------------------------------------------------------------------------
(* C9 *)

\* the handler sequences of the pipeline
Pipelines == {
    <<"logger", "public">>,
    <<"logger", "bearerAuth">>,
    <<"logger", "bearerAuth", "protected">>,
    <<"logger", "root">>,
    <<"logger", "notFound">> }
IsPrefix(p, q) == Len(p) <= Len(q) /\ SubSeq(q, 1, Len(p)) = p

\* C9: every request follows the pipeline logged -> [authenticated] ->
\* handled -> responded; at most one response is ever written, the request
\* is terminal once it is written (no later handler, no second response),
\* and every request that arrives is eventually answered exactly once.
C9_OneResponseEventually ==
    /\ [](\A i \in Reqs :
            /\ \E q \in Pipelines : IsPrefix(trace[i], q)
            /\ Len(res[i]) <= 1
            /\ res[i] # <<>> => at[i] = Done)
    /\ [][\A i \in Reqs :
            res[i] # <<>> =>
                res'[i] = res[i] /\ trace'[i] = trace[i] /\ at'[i] = at[i]]_vars
    /\ \A i \in Reqs :
            (at[i] # Idle) ~> (at[i] = Done /\ Len(res[i]) = 1)

\* two requests in flight, one through the whole protected pipeline
C9_Witness ==
    \E i, j \in Reqs :
        /\ i # j
        /\ Responded(i)
        /\ trace[i] = <<"logger", "bearerAuth", "protected">>
        /\ Len(res[i]) = 1
        /\ at[j].st = "run"

----------------------------------------------------------------------------
(* C10 *)

\* C10: no step changes the configured port and token, and under every
\* interleaving two answered requests with the same method, URL and
\* Authorization header have the same status and the same message.
C10_ConfigFixedAndStateless ==
    /\ [][PORT' = PORT /\ TOKEN' = TOKEN]_vars
    /\ [](\A i, j \in Reqs :
            (Responded(i) /\ Responded(j) /\ req[i] = req[j]) =>
                /\ res[i][1].status = res[j][1].status
                /\ MessageOf(res[i][1].body) = MessageOf(res[j][1].body))

\* two equal requests to the protected route, answered while interleaved
C10_Witness ==
    \E i, j \in Reqs :
        /\ i # j
        /\ Responded(i) /\ Responded(j)
        /\ req[i] = req[j]
        /\ IsGetProtected(req[i])
        /\ res[i][1].status = 403

====
